---- MODULE Spec2Model ----
(***************************************************************************)
(* Areal-rainfall reduction of one timestamp row of a basin, as done by    *)
(* hydrodata_china:                                                        *)
(*   settings/rainfall_methods.py        the three averaging strategies    *)
(*   settings/calculate_basin_rainfall.py the per-date loop that calls all *)
(*                                        three on a CSV of readings       *)
(*   datasets/anhui/meteorological/step1_new.py and                        *)
(*   step1_basin_1h_p_anhui.py           the per-basin pipelines that      *)
(*                                        apply one strategy to every row  *)
(*                                                                         *)
(* Floating-point numbers are exact rationals [k, n, d]; NaN is a value of *)
(* its own kind.  Coordinates are homogeneous triples <<X, Y, W>> that     *)
(* stand for the point (X/W, Y/W), so that the vertices of clipped         *)
(* polygons and the np.linspace grid stay exact.  Station and basin        *)
(* coordinates are given in tenths of the map unit.                        *)
(***************************************************************************)
EXTENDS Integers, Sequences, FiniteSets, TLC

VARIABLES
    station_points,     \* stations_gdf geometry: coordinates of the row's stations
    records,            \* records[i]: the DRP records of station i at the row's timestamp
    rainfall_values,    \* the aligned row: one value (or NaN) per station
    basin_polygon,      \* basin_geom / basin_polygon: vertices, counter-clockwise
    grid_points,        \* the grid points handed to inverse_distance_weighting
    estimated_rainfall, \* inverse_distance_weighting's per-grid-point estimates
    weights,            \* thiessen_polygon_mean's area per valid station, 0 for a skipped one
    valid_points,       \* calculate_basin_rainfall: coordinates of the valid stations
    valid_rainfall,     \* calculate_basin_rainfall: first record of each valid station
    station_coords,     \* step1_new: station_coords[i] is <<point>>, or <<>> when the dict has no entry
    arithmetic_result,  \* what arithmetic_mean returned
    thiessen_result,    \* what thiessen_polygon_mean returned
    idw_result,         \* what inverse_distance_weighting returned
    P_mean,             \* step1_new / step1_basin_1h_p_anhui: the row's P_mean cell
    results,            \* calculate_basin_rainfall: the result rows appended so far
    exception,          \* the exception that ended the run, "" while none
    call,               \* the function or pipeline branch that was run
    pc,                 \* control state
    script,             \* the pipeline that runs main(): step1_new or step1_basin_1h_p_anhui
    RAIN_MEAN_METHOD,   \* the configured method
    stations_gdf,       \* main: the station points, station i has code i
    basins_gdf,         \* main: the basin polygons, basin b has Basin_ID b
    rainfall_folder,    \* rainfall_folder[c]: the file named after station code c, if any, and its rows
    listdir,            \* os.listdir(rainfall_folder): the codes of the files, in listing order
    basin_station_map,  \* main: per basin the station codes in its buffer
    basin_id,           \* main: the basin the loop is at, 0 before the loop
    station_dfs,        \* process_rainfall_for_basin: the series read, in reading order
    min_tm,             \* process_rainfall_for_basin
    max_tm,             \* process_rainfall_for_basin
    full_tm,            \* process_rainfall_for_basin: the axis
    result_df,          \* process_rainfall_for_basin: per row the station columns
    P_mean_column,      \* result_df["P_mean"], the rows reduced so far
    out_csv,            \* out_csv[b]: <<table>> once basin b is saved, <<>> before
    no_data             \* basins reported with "No available rainfall data"

\* the state of one row reduction
row_state == <<station_points, records, rainfall_values, basin_polygon, grid_points,
               estimated_rainfall, weights, valid_points, valid_rainfall,
               arithmetic_result, thiessen_result, idw_result, P_mean, results, call>>

\* the state of a run of main()
run_state == <<script, RAIN_MEAN_METHOD, stations_gdf, basins_gdf, rainfall_folder, listdir,
               basin_station_map, basin_id, station_dfs, min_tm, max_tm, full_tm,
               result_df, P_mean_column, out_csv, no_data>>

vars == <<row_state, station_coords, exception, pc, run_state>>

----------------------------------------------------------------------------
(* Bounds of the model *)

\* stations in one row
MaxStations == 4
\* records of one station at one timestamp
MaxDup == 2

(* Program constants *)

\* calculate_basin_rainfall: points per axis of the np.linspace grid.  The code
\* sets 20; the grid is built the same way here with 3, so that the mean over
\* the grid points stays an exact rational within TLC's 32-bit integers
grid_size == 3

\* inverse_distance_weighting(..., p=2)
p_default == 2
\* thiessen_row: len(points) >= 3
MinThiessenPoints == 3

----------------------------------------------------------------------------
(* float64 values: exact rationals, NaN, and "not assigned" *)

Abs(x) == IF x < 0 THEN -x ELSE x

RECURSIVE GCD(_, _)
GCD(a, b) == IF b = 0 THEN a ELSE GCD(b, a % b)

Rat(n, d) ==
    LET s == IF d < 0 THEN -1 ELSE 1
        g == GCD(Abs(n), Abs(d))
    IN  [k |-> "num", n |-> (s * n) \div g, d |-> (s * d) \div g]

Num(v) == [k |-> "num", n |-> v, d |-> 1]
NaN == [k |-> "nan", n |-> 0, d |-> 1]
Unset == [k |-> "none", n |-> 0, d |-> 1]
Raise(e) == [k |-> e, n |-> 0, d |-> 1]

isna(x) == x.k = "nan"
IsNum(x) == x.k = "num"
IsRaise(x) == x.k \notin {"num", "nan", "none"}

RAdd(a, b) ==
    LET g == GCD(a.d, b.d)
    IN  Rat(a.n * (b.d \div g) + b.n * (a.d \div g), a.d * (b.d \div g))

RMul(a, b) ==
    LET g1 == GCD(Abs(a.n), b.d)
        g2 == GCD(Abs(b.n), a.d)
    IN  IF a.n = 0 \/ b.n = 0 THEN Num(0)
        ELSE Rat((a.n \div g1) * (b.n \div g2), (a.d \div g2) * (b.d \div g1))

RInv(a) == Rat(a.d, a.n)
RDiv(a, b) == RMul(a, RInv(b))
RLt(a, b) == a.n * b.d < b.n * a.d
RLe(a, b) == a.n * b.d <= b.n * a.d

RECURSIVE RPow(_, _)
RPow(a, e) == IF e = 0 THEN Num(1) ELSE RMul(a, RPow(a, e - 1))

\* np.sum / sum(): left to right over a list of numbers
RECURSIVE RSum(_)
RSum(s) == IF s = <<>> THEN Num(0) ELSE RAdd(RSum(SubSeq(s, 1, Len(s) - 1)), s[Len(s)])

\* np.mean: the sum over the count; NaN for an empty array
np_mean(s) == IF s = <<>> THEN NaN ELSE RDiv(RSum(s), Num(Len(s)))

\* [i for i, x in enumerate(s) if keep(x)]: the kept indices in order, keep
\* being the sequence of the tests
SelectIdx(keep) ==
    LET RECURSIVE Go(_)
        Go(i) == IF i > Len(keep) THEN <<>>
                 ELSE IF keep[i] THEN <<i>> \o Go(i + 1) ELSE Go(i + 1)
    IN  Go(1)

notna(x) == ~isna(x)

\* [i for i, val in enumerate(values) if not pd.isna(val)]
notna_indices(values) == SelectIdx([i \in 1..Len(values) |-> notna(values[i])])

Pick(s, idx) == [j \in 1..Len(idx) |-> s[idx[j]]]

----------------------------------------------------------------------------
(* shapely / scipy geometry on homogeneous points *)

Pt(x, y) == <<x, y, 1>>

HPt(X, Y, W) ==
    LET g == GCD(GCD(Abs(X), Abs(Y)), Abs(W))
        s == IF W < 0 THEN -1 ELSE 1
    IN  <<(s * X) \div g, (s * Y) \div g, (s * W) \div g>>

\* squared distance of two points, a rational
Dist2(P, Q) ==
    LET dx == P[1] * Q[3] - Q[1] * P[3]
        dy == P[2] * Q[3] - Q[2] * P[3]
        w == P[3] * Q[3]
    IN  Rat(dx * dx + dy * dy, w * w)

\* the closed half-plane of the points at least as near to station a as to
\* station b: <<A, B, C>> stands for A*x + B*y <= C
Bisector(a, b) ==
    <<2 * (b[1] - a[1]), 2 * (b[2] - a[2]),
      b[1] * b[1] + b[2] * b[2] - a[1] * a[1] - a[2] * a[2]>>

Side(L, P) == L[1] * P[1] + L[2] * P[2] - L[3] * P[3]

\* the point where segment P-Q crosses the line of L (Side(P) > 0 >= Side(Q))
Cross(L, P, Q) ==
    LET sP == Side(L, P)
        sQ == Side(L, Q)
    IN  HPt(sP * Q[1] - sQ * P[1], sP * Q[2] - sQ * P[2], sP * Q[3] - sQ * P[3])

\* polygon /\ half-plane (the polygon is convex)
ClipHalfPlane(poly, L) ==
    LET n == Len(poly)
        RECURSIVE Go(_)
        Go(i) ==
            IF i > n THEN <<>>
            ELSE LET P == poly[i]
                     Q == poly[(i % n) + 1]
                     inP == Side(L, P) <= 0
                     inQ == Side(L, Q) <= 0
                 IN  (IF inP THEN <<P>> ELSE <<>>)
                     \o (IF inP /\ ~inQ THEN <<Cross(L, Q, P)>>
                         ELSE IF ~inP /\ inQ /\ Side(L, Q) < 0 THEN <<Cross(L, P, Q)>>
                         ELSE <<>>)
                     \o Go(i + 1)
    IN  Go(1)

\* polygon.area: the shoelace formula
PolygonArea(poly) ==
    LET n == Len(poly)
        Term(i) == LET P == poly[i]
                       Q == poly[(i % n) + 1]
                   IN  Rat(P[1] * Q[2] - Q[1] * P[2], P[3] * Q[3])
        twice == RSum([i \in 1..n |-> Term(i)])
    IN  IF n < 3 THEN Num(0) ELSE Rat(Abs(twice.n), 2 * twice.d)

\* polygon.contains(point): the point lies in the interior
Contains(poly, P) ==
    LET n == Len(poly)
    IN  /\ n >= 3
        /\ \A i \in 1..n :
              LET V == poly[i]
                  U == poly[(i % n) + 1]
              IN  (U[1] - V[1]) * (P[2] - V[2] * P[3])
                    - (U[2] - V[2]) * (P[1] - V[1] * P[3]) > 0

----------------------------------------------------------------------------
(* scipy.spatial.Voronoi *)

Collinear(a, b, c) ==
    (b[1] - a[1]) * (c[2] - a[2]) - (b[2] - a[2]) * (c[1] - a[1]) = 0

\* Qhull raises QhullError when the sites do not span the plane: fewer than
\* three distinct sites, or all of them on one line
QhullFails(points) ==
    ~ \E i, j, l \in 1..Len(points) : ~Collinear(points[i], points[j], points[l])

\* "-1 in region": the Voronoi region of site i reaches infinity, which is the
\* case exactly when the site lies on the boundary of the convex hull of the sites
RegionUnbounded(points, i) ==
    \E j \in 1..Len(points) :
        /\ points[j] # points[i]
        /\ LET Turn(l) == (points[j][1] - points[i][1]) * (points[l][2] - points[i][2])
                           - (points[j][2] - points[i][2]) * (points[l][1] - points[i][1])
           IN  \/ \A l \in 1..Len(points) : Turn(l) >= 0
               \/ \A l \in 1..Len(points) : Turn(l) <= 0

\* Polygon(region vertices).intersection(basin_polygon) for the region of site i:
\* the basin cut by the bisectors between site i and every other site
CellIntersection(points, i, basin) ==
    LET RECURSIVE Go(_, _)
        Go(poly, j) ==
            IF j > Len(points) \/ poly = <<>> THEN poly
            ELSE IF points[j] = points[i] THEN Go(poly, j + 1)
            ELSE Go(ClipHalfPlane(poly, Bisector(points[i], points[j])), j + 1)
    IN  Go(basin, 1)

\* vor.point_region, with 0 for a region without vertices.  A site with
\* coordinates of its own has its own region.  Of several input points with the
\* same coordinates Qhull keeps one as a site; what point_region holds for the
\* others, and vor.regions[that], is left to Qhull: any region of the diagram.
Voronoi(points) ==
    LET m == Len(points)
        Alone(i) == \A j \in 1..m : points[j] = points[i] => j = i
    IN  IF \A i \in 1..m : Alone(i) THEN {[i \in 1..m |-> i]}
        ELSE {pr \in [1..m -> 0..m] : \A i \in 1..m : Alone(i) => pr[i] = i}

----------------------------------------------------------------------------
(* settings/rainfall_methods.py *)

\* the mean that counts the missing values in the divisor
arithmetic_mean_all(values) ==
    LET valid_indices == notna_indices(values)
    IN  IF valid_indices = <<>> THEN NaN
        ELSE RDiv(RSum(Pick(values, valid_indices)), Num(Len(values)))

arithmetic_mean(values) ==
    LET valid_values == Pick(values, notna_indices(values))
    IN  IF valid_values # <<>> THEN np_mean(valid_values) ELSE NaN

\* the points Voronoi() is called on
thiessen_valid_points(points, values) ==
    LET valid_indices == notna_indices(values)
    IN  IF \E j \in 1..Len(valid_indices) : valid_indices[j] > Len(points) THEN <<>>
        ELSE Pick(points, valid_indices)

\* the loop over the valid stations: the area added for each of them, 0 for one
\* whose region is skipped; vor is the point_region of Voronoi(points)
thiessen_weights(station_points_valid, basin, vor) ==
    [i \in 1..Len(station_points_valid) |->
        IF vor[i] = 0 \/ RegionUnbounded(station_points_valid, vor[i]) THEN Num(0)
        ELSE PolygonArea(CellIntersection(station_points_valid, vor[i], basin))]

\* the function without its test for an empty list of valid stations
thiessen_polygon_mean_unguarded(points, values, basin, vor) ==
    LET valid_indices == notna_indices(values)
        station_points_valid == Pick(points, valid_indices)
        areas == thiessen_weights(station_points_valid, basin, vor)
        total_area == RSum(areas)
        weighted_sum == RSum([i \in 1..Len(valid_indices) |->
                                 RMul(values[valid_indices[i]], areas[i])])
    IN  IF QhullFails(station_points_valid) THEN Raise("QhullError")
        ELSE IF RLt(Num(0), total_area) THEN RDiv(weighted_sum, total_area)
        ELSE NaN

thiessen_polygon_mean(points, values, basin, vor) ==
    LET valid_indices == notna_indices(values)
        station_points_valid == Pick(points, valid_indices)
        rainfall_values_valid == Pick(values, valid_indices)
        m == Len(valid_indices)
        areas == thiessen_weights(station_points_valid, basin, vor)
        total_area == RSum(areas)
        weighted_sum == RSum([i \in 1..m |-> RMul(rainfall_values_valid[i], areas[i])])
    IN  IF valid_indices = <<>> THEN NaN
        ELSE IF \E j \in 1..m : valid_indices[j] > Len(points) THEN Raise("IndexError")
        ELSE IF QhullFails(station_points_valid) THEN Raise("QhullError")
        ELSE IF RLt(Num(0), total_area) THEN RDiv(weighted_sum, total_area)
        ELSE NaN

\* the areas the loop of thiessen_polygon_mean has added when the call returns;
\* none when the call left before the loop
thiessen_areas(points, values, basin, vor) ==
    LET valid_indices == notna_indices(values)
    IN  IF valid_indices = <<>> \/ IsRaise(thiessen_polygon_mean(points, values, basin, vor))
           THEN <<>>
           ELSE thiessen_weights(Pick(points, valid_indices), basin, vor)

\* the estimate without the test for a zero distance: numpy divides by zero, the
\* weight is inf and the normalised weights and the estimate are nan
idw_estimate_no_zero_test(station_points_valid, rainfall_values_valid, point, p) ==
    LET m == Len(station_points_valid)
        distances2 == [i \in 1..m |-> Dist2(station_points_valid[i], point)]
        inv_weights == [i \in 1..m |-> RInv(RPow(distances2[i], p \div 2))]
        total == RSum(inv_weights)
    IN  IF \E i \in 1..m : distances2[i].n = 0 THEN NaN
        ELSE RSum([i \in 1..m |-> RMul(RDiv(inv_weights[i], total),
                                        rainfall_values_valid[i])])

\* the estimate at one grid point (the body of the loop over grid_points);
\* distances ** p is exact for the even p the code uses
idw_estimate(station_points_valid, rainfall_values_valid, point, p) ==
    LET m == Len(station_points_valid)
        distances2 == [i \in 1..m |-> Dist2(station_points_valid[i], point)]
        zeros == SelectIdx([i \in 1..m |-> distances2[i].n = 0])
        inv_weights == [i \in 1..m |-> RInv(RPow(distances2[i], p \div 2))]
        total == RSum(inv_weights)
        normalized == [i \in 1..m |-> RDiv(inv_weights[i], total)]
    IN  IF zeros # <<>> THEN rainfall_values_valid[zeros[1]]
        ELSE RSum([i \in 1..m |-> RMul(normalized[i], rainfall_values_valid[i])])

\* estimated_rainfall when the function returns
idw_estimates(points, values, grid, p) ==
    LET valid_indices == notna_indices(values)
    IN  IF valid_indices = <<>> THEN <<>>
        ELSE [g \in 1..Len(grid) |->
                 idw_estimate(Pick(points, valid_indices), Pick(values, valid_indices),
                              grid[g], p)]

\* an interpolation that adds the grid-point estimates up instead of averaging
\* them
inverse_distance_weighting_sum(points, values, grid, p) ==
    LET valid_indices == notna_indices(values)
    IN  IF valid_indices = <<>> THEN NaN
        ELSE IF grid = <<>> THEN NaN
        ELSE RSum(idw_estimates(points, values, grid, p))

inverse_distance_weighting(points, values, grid, p) ==
    LET valid_indices == notna_indices(values)
    IN  IF valid_indices = <<>> THEN NaN
        ELSE np_mean(idw_estimates(points, values, grid, p))

----------------------------------------------------------------------------
(* datasets/anhui/meteorological/step1_new.py *)

\* df.groupby("TM")["DRP"].mean() at one timestamp, then map() onto the axis: the
\* mean of the non-missing records; NaN when all are missing or there is none
groupby_mean(recs) ==
    LET present == Pick(recs, notna_indices(recs))
    IN  IF present = <<>> THEN NaN ELSE np_mean(present)

\* [station_coords[stcd] for stcd in stcds if stcd in station_coords]
row_points(row, coords) ==
    LET stcds == notna_indices(row)
        known == SelectIdx([j \in 1..Len(stcds) |-> coords[stcds[j]] # <<>>])
    IN  [j \in 1..Len(known) |-> coords[stcds[known[j]]][1]]

row_vals(row) == Pick(row, notna_indices(row))

thiessen_row(row, coords, basin_geom, vor) ==
    LET vals == row_vals(row)
        points == row_points(row, coords)
    IN  IF Len(points) >= MinThiessenPoints
            THEN thiessen_polygon_mean(points, vals, basin_geom, vor)
        ELSE IF Len(points) > 0 THEN arithmetic_mean(vals)
        ELSE NaN

----------------------------------------------------------------------------
(* settings/calculate_basin_rainfall.py *)

\* station_data[rainfall_field].iloc[0] of a station that has records
first_record(recs) == recs[1]

\* the stations kept by the loop over stations_gdf
cbr_valid_indices(recs) ==
    SelectIdx([i \in 1..Len(recs) |-> /\ recs[i] # <<>>
                                       /\ notna(first_record(recs[i]))
                                       /\ first_record(recs[i]).n >= 0])

SeqMin(s) == CHOOSE x \in {s[i] : i \in 1..Len(s)} : \A j \in 1..Len(s) : x <= s[j]
SeqMax(s) == CHOOSE x \in {s[i] : i \in 1..Len(s)} : \A j \in 1..Len(s) : x >= s[j]

\* np.linspace(lo, hi, num)[i] as the numerator over num - 1
linspace(lo, hi, num, i) == lo * (num - 1) + i * (hi - lo)

\* the grid of the bounding box without the test basin_polygon.contains
basin_grid_unfiltered(basin, num) ==
    LET xs == [i \in 1..Len(basin) |-> basin[i][1]]
        ys == [i \in 1..Len(basin) |-> basin[i][2]]
    IN  [t \in 1..(num * num) |->
            HPt(linspace(SeqMin(xs), SeqMax(xs), num, (t - 1) \div num),
                linspace(SeqMin(ys), SeqMax(ys), num, (t - 1) % num),
                num - 1)]

\* the grid points of the bounding box that basin_polygon.contains
basin_grid(basin, num) ==
    LET xs == [i \in 1..Len(basin) |-> basin[i][1]]
        ys == [i \in 1..Len(basin) |-> basin[i][2]]
        minx == SeqMin(xs)
        maxx == SeqMax(xs)
        miny == SeqMin(ys)
        maxy == SeqMax(ys)
        all == [t \in 1..(num * num) |->
                  HPt(linspace(minx, maxx, num, (t - 1) \div num),
                      linspace(miny, maxy, num, (t - 1) % num),
                      num - 1)]
    IN  Pick(all, SelectIdx([t \in 1..Len(all) |-> Contains(basin, all[t])]))

----------------------------------------------------------------------------
(* step1_new.py and step1_basin_1h_p_anhui.py: main() and its two functions *)

\* BUFFER_DISTANCE = 2000 (metres); the coordinates of a run are in kilometres
BUFFER_DISTANCE == 2

\* pandas timestamps are counted in ticks of half an hour: freq="h" is 2 ticks
TicksPerHour == 2

\* Python's None, pandas' NaT, and a Timestamp
None == [k |-> "None", t |-> 0]
NaT == [k |-> "NaT", t |-> 0]
Ts(t) == [k |-> "ts", t |-> t]

\* a < b on Timestamps: False when one of them is NaT
TmLess(a, b) == a.k = "ts" /\ b.k = "ts" /\ a.t < b.t

\* the squared distance of P to the segment from V to U
SegDist2(P, V, U) ==
    LET ex == U[1] - V[1]
        ey == U[2] - V[2]
        wx == P[1] - V[1]
        wy == P[2] - V[2]
        t == wx * ex + wy * ey
        len2 == ex * ex + ey * ey
        cr == ex * wy - ey * wx
    IN  IF t <= 0 THEN Num(wx * wx + wy * wy)
        ELSE IF t >= len2 THEN Dist2(P, U)
        ELSE Rat(cr * cr, len2)

\* point.within(polygon.buffer(d)): the point lies in the interior of the
\* buffer.  The arcs that buffer() puts around the vertices are taken as true
\* arcs; the stations of the model lie off the sliver where that matters
within_buffer(P, poly, d) ==
    \/ Contains(poly, P)
    \/ \E i \in 1..Len(poly) :
          RLt(SegDist2(P, poly[i], poly[(i % Len(poly)) + 1]), Num(d * d))

\* basin_station_map of collect_stations_in_buffer: per basin the codes of
\* stations_gdf[stations_gdf.geometry.within(basin_buffer)], in the order of
\* stations_gdf
collect_stations_in_buffer(stations, basins, buffer_distance) ==
    [b \in 1..Len(basins) |->
        SelectIdx([i \in 1..Len(stations) |->
                      within_buffer(stations[i], basins[b], buffer_distance)])]

\* the keys of a groupby, ascending
RECURSIVE SortedTicks(_)
SortedTicks(S) ==
    IF S = {} THEN <<>>
    ELSE LET m == CHOOSE x \in S : \A y \in S : x <= y
         IN  <<m>> \o SortedTicks(S \ {m})

\* df.groupby("TM", as_index=False)["DRP"].mean(): one row per timestamp, in
\* ascending order, with the mean of its non-missing values
groupby_TM(rows) ==
    LET keys == SortedTicks({rows[i].TM : i \in 1..Len(rows)})
        at(tm) == SelectIdx([q \in 1..Len(rows) |-> rows[q].TM = tm])
    IN  [j \in 1..Len(keys) |->
            [TM |-> keys[j],
             DRP |-> groupby_mean([i \in 1..Len(at(keys[j])) |-> rows[at(keys[j])[i]].DRP])]]

\* tms.min() and tms.max(): NaT for an empty column
tms_min(df) == IF df = <<>> THEN NaT ELSE Ts(df[1].TM)
tms_max(df) == IF df = <<>> THEN NaT ELSE Ts(df[Len(df)].TM)

\* f"{stcd}-1h_processed.xlsx" in f, for the file f named after station code
\* code: the digits of code end with the digits of stcd
name_matches(stcd, code) == code % (IF stcd < 10 THEN 10 ELSE 100) = stcd

\* [f for f in os.listdir(rainfall_folder) if f"{stcd}-1h_processed.xlsx" in f]
matched_files(stcd, listing) ==
    Pick(listing, SelectIdx([i \in 1..Len(listing) |-> name_matches(stcd, listing[i])]))

\* lines 92-97: per station code the file that is read for it, matched_files[0],
\* and none where no file matches
files_read(codes, folder, listing) ==
    [stcd \in codes |->
        IF matched_files(stcd, listing) = <<>> THEN [exists |-> FALSE, rows |-> <<>>]
        ELSE folder[matched_files(stcd, listing)[1]]]

\* a loop that gives a station without a file an empty series
RECURSIVE read_stations_all(_, _, _)
read_stations_all(station_codes, folder, k) ==
    IF k = 0 THEN [station_dfs |-> <<>>, min_tm |-> None, max_tm |-> None]
    ELSE LET prev == read_stations_all(station_codes, folder, k - 1)
             stcd == station_codes[k]
             df == groupby_TM(folder[stcd].rows)
         IN  [station_dfs |-> Append(prev.station_dfs, [stcd |-> stcd, series |-> df]),
              min_tm |-> IF prev.min_tm = None \/ TmLess(tms_min(df), prev.min_tm)
                            THEN tms_min(df) ELSE prev.min_tm,
              max_tm |-> IF prev.max_tm = None \/ TmLess(prev.max_tm, tms_max(df))
                            THEN tms_max(df) ELSE prev.max_tm]

\* the loop over station_codes after its first k passes: a station without a
\* file is passed over; the others add their series and move min_tm and max_tm
RECURSIVE read_stations(_, _, _)
read_stations(station_codes, folder, k) ==
    IF k = 0 THEN [station_dfs |-> <<>>, min_tm |-> None, max_tm |-> None]
    ELSE LET prev == read_stations(station_codes, folder, k - 1)
             stcd == station_codes[k]
             df == groupby_TM(folder[stcd].rows)
         IN  IF ~folder[stcd].exists THEN prev
             ELSE [station_dfs |-> Append(prev.station_dfs, [stcd |-> stcd, series |-> df]),
                   min_tm |-> IF prev.min_tm = None \/ TmLess(tms_min(df), prev.min_tm)
                                 THEN tms_min(df) ELSE prev.min_tm,
                   max_tm |-> IF prev.max_tm = None \/ TmLess(prev.max_tm, tms_max(df))
                                 THEN tms_max(df) ELSE prev.max_tm]

\* a test of line 112 that lets every basin through
has_station_data_always(dfs, lo, hi) == TRUE

\* line 112: if station_dfs and min_tm is not None and max_tm is not None
has_station_data(dfs, lo, hi) == dfs # <<>> /\ lo # None /\ hi # None

\* pd.date_range(start, end, freq="h") raises ValueError for a NaT bound
date_range_fails(start, end) == start.k = "NaT" \/ end.k = "NaT"

\* a date_range that leaves its end out: start, start + 1 h, ... while < end
date_range_open(start, end) ==
    [i \in 1..((end.t - start.t + TicksPerHour - 1) \div TicksPerHour) |->
        start.t + (i - 1) * TicksPerHour]

\* pd.date_range(start, end, freq="h"): start, start + 1 h, ... while <= end
date_range(start, end) ==
    [i \in 1..((end.t - start.t) \div TicksPerHour + 1) |->
        start.t + (i - 1) * TicksPerHour]

\* result_df["TM"].map(drp_series) at one timestamp
map_series(series, tm) ==
    IF \E j \in 1..Len(series) : series[j].TM = tm
       THEN series[CHOOSE j \in 1..Len(series) : series[j].TM = tm].DRP
       ELSE NaN

\* result_df without its TM column: per timestamp of the axis one value per
\* series read
build_result_df(axis, dfs) ==
    [r \in 1..Len(axis) |-> [c \in 1..Len(dfs) |-> map_series(dfs[c].series, axis[r])]]

\* an apply that is taken as finished at any row
apply_finished_early(column, table) == TRUE

\* result_df.apply(..., axis=1) has reduced every row of the table
apply_finished(column, table) == Len(column) = Len(table)

\* a table whose station columns are filled with the areal mean where the
\* station has no value
to_csv_filled(axis, column, dfs, table) ==
    [time |-> axis,
     p_anhui |-> column,
     stations |-> [c \in 1..Len(dfs) |-> dfs[c].stcd],
     rows |-> [r \in 1..Len(table) |->
                  [c \in 1..Len(table[r]) |->
                      IF table[r][c] = NaN THEN column[r] ELSE table[r][c]]]]

\* lines 143-149: the table that is written: time, p_anhui and one column per
\* station
to_csv(axis, column, dfs, table) ==
    [time |-> axis,
     p_anhui |-> column,
     stations |-> [c \in 1..Len(dfs) |-> dfs[c].stcd],
     rows |-> table]

\* one file name for the tables of all basins
out_name_shared(id) == 1

\* line 148: the file of a basin, f"{basin_id}_Pmean_Anhui.csv" in output_folder
out_name(id) == id

\* the reduction the configured method applies to a row; coords are the
\* station_coords of the columns
reduce_row(file, method, row, coords, basin_geom, vor) ==
    IF method = "arithmetic" THEN arithmetic_mean(row_vals(row))
    ELSE IF method = "thiessen" /\ file = "step1_new"
        THEN thiessen_row(row, coords, basin_geom, vor)
    ELSE Raise("TypeError")

----------------------------------------------------------------------------
(* Inputs *)

\* rainfall depths (mm) a record can hold
Depths == {10, 20, 30}

\* station layouts: the three gauges around the basin and one inside it; two
\* gauges at one location in the middle of the basin
Layouts ==
    { <<Pt(1, 1), Pt(9, 1), Pt(5, 9), Pt(5, 5), Pt(4, 3)>>,
      <<Pt(5, 5), Pt(5, 5), Pt(1, 1), Pt(9, 1), Pt(5, 9)>> }

\* the layout for which station_coords is also taken without the entry of the
\* first station (lines 103-106: the station is not found in stations_gdf)
CoordsLayout == <<Pt(1, 1), Pt(9, 1), Pt(5, 9), Pt(5, 5), Pt(4, 3)>>

\* basins: the square and a triangle
Basins ==
    { <<Pt(0, 0), Pt(10, 0), Pt(10, 10), Pt(0, 10)>>,
      <<Pt(0, 0), Pt(10, 0), Pt(0, 10)>> }

\* grid points a caller of inverse_distance_weighting passes
GridChoices ==
    { <<>>, <<Pt(5, 5)>>, <<Pt(5, 5), Pt(1, 1)>>, <<Pt(3, 5), Pt(7, 5), Pt(5, 2)>> }

\* the records of a station that reports at most once at the timestamp
Single == {<<>>} \cup {<<Num(v)>> : v \in Depths}

\* the records of a station whose file repeats the timestamp
Repeated ==
    LET raw == {Num(v) : v \in Depths} \cup {NaN}
    IN  UNION {[1..l -> raw] : l \in 2..MaxDup}

\* the stations of a run: one inside the first basin, three in its buffer, one
\* on the edge of its buffer and one inside the last basin
RunStations == <<Pt(5, 5), Pt(11, 5), Pt(5, -1), Pt(-1, 11), Pt(12, 5), Pt(25, 5)>>

\* the basins of a run: the second one has no station near it, and the last
\* one is a ring that has collapsed onto a line and encloses no area
RunBasins ==
    << <<Pt(0, 0), Pt(10, 0), Pt(10, 10), Pt(0, 10)>>,
       <<Pt(40, 0), Pt(50, 0), Pt(50, 10), Pt(40, 10)>>,
       <<Pt(20, 0), Pt(30, 0), Pt(30, 10), Pt(20, 10)>>,
       <<Pt(24, 4), Pt(26, 4), Pt(25, 4)>> >>

\* a row of a station file, a station file, and a station without a file
Reading(t, v) == [TM |-> t, DRP |-> v]
File(rows) == [exists |-> TRUE, rows |-> rows]
NoFile == [exists |-> FALSE, rows |-> <<>>]

\* the files of the stations of a run: files that are missing or empty, a
\* repeated timestamp, a gap, a missing value, timestamps off the full hour
StationFiles ==
    { <<f1, f2, f3, f4, File(<<Reading(0, Num(10))>>), f6>> :
        f1 \in { NoFile, File(<<>>), File(<<Reading(0, Num(10))>>),
                 File(<<Reading(0, Num(10)), Reading(0, Num(30)), Reading(4, Num(20))>>),
                 File(<<Reading(1, Num(20))>>),
                 File(<<Reading(2, NaN), Reading(4, Num(30))>>) },
        f2 \in { NoFile, File(<<>>), File(<<Reading(0, Num(20))>>),
                 File(<<Reading(2, Num(20)), Reading(3, Num(10))>>) },
        f3 \in { NoFile, File(<<Reading(0, Num(30))>>) },
        f4 \in { NoFile, File(<<Reading(0, Num(10))>>) },
        f6 \in { NoFile, File(<<>>), File(<<Reading(0, Num(10)), Reading(2, NaN)>>) } }

\* the codes a file of the folder can be named after: the stations of the run
\* and a station outside the station layer whose code ends with the code of the
\* last station
FileCodes == (1..Len(RunStations)) \cup {Len(RunStations) + 10}

\* a rainfall folder: the files of the stations of the run and the file of the
\* station outside the station layer
Folder(files, other) ==
    [c \in FileCodes |-> IF c <= Len(RunStations) THEN files[c] ELSE other]

\* the rainfall folders of a run: the files of the stations of the run alone,
\* and, where the stations of the first basin have one reading each, also with
\* the file of the station outside the station layer
RunFolders ==
    { Folder(files, NoFile) : files \in StationFiles }
    \cup
    { Folder(files, File(<<Reading(0, Num(30))>>)) :
        files \in { f \in StationFiles :
                       \A c \in 1..4 : Len(f[c].rows) = 1 /\ f[c].rows[1].TM = 0 } }

\* the orders os.listdir can give the files of a folder in: ascending by code,
\* and the file of the longest code first
Listings(folder) ==
    LET present == {c \in DOMAIN folder : folder[c].exists}
        long == {c \in present : c > Len(RunStations)}
    IN  { SortedTicks(present), SortedTicks(long) \o SortedTicks(present \ long) }

\* a row, its stations and their records, for the three functions and for one
\* timestamp of their callers
InitRow ==
    /\ \E layout \in Layouts, n \in 0..MaxStations :
          /\ station_points = SubSeq(layout, 1, n)
          /\ \/ records \in [1..n -> Single]
             \/ /\ n \in 1..2
                /\ records \in {r \in [1..n -> Single \cup Repeated] :
                                   /\ r[1] \in Repeated
                                   /\ \A i \in 2..n : r[i] \in Single}
          /\ \/ station_coords = [i \in 1..n |-> <<layout[i]>>]
             \/ /\ layout = CoordsLayout
                /\ n \in MinThiessenPoints..(MinThiessenPoints + 1)
                /\ records \in [1..n -> Single]
                /\ station_coords = [i \in 1..n |-> IF i = 1 THEN <<>> ELSE <<layout[i]>>]
    /\ rainfall_values = <<>>
    /\ basin_polygon = <<>>
    /\ grid_points = <<>>
    /\ estimated_rainfall = <<>>
    /\ weights = <<>>
    /\ valid_points = <<>>
    /\ valid_rainfall = <<>>
    /\ arithmetic_result = Unset
    /\ thiessen_result = Unset
    /\ idw_result = Unset
    /\ P_mean = Unset
    /\ results = <<>>
    /\ exception = ""
    /\ call = ""
    /\ pc = "read"
    /\ script = ""
    /\ RAIN_MEAN_METHOD = ""
    /\ stations_gdf = <<>>
    /\ basins_gdf = <<>>
    /\ rainfall_folder = <<>>
    /\ listdir = <<>>
    /\ basin_station_map = <<>>
    /\ basin_id = 0
    /\ station_dfs = <<>>
    /\ min_tm = None
    /\ max_tm = None
    /\ full_tm = <<>>
    /\ result_df = <<>>
    /\ P_mean_column = <<>>
    /\ out_csv = <<>>
    /\ no_data = <<>>

\* a run of main() of one of the two pipelines: the shapefiles, the station
\* files and the configured method
InitRun ==
    /\ script \in {"step1_new", "step1_basin_1h_p_anhui"}
    /\ RAIN_MEAN_METHOD \in {"arithmetic", "thiessen", "idw"}
    /\ stations_gdf = RunStations
    /\ basins_gdf = RunBasins
    /\ rainfall_folder \in RunFolders
    /\ listdir \in Listings(rainfall_folder)
    /\ basin_station_map = <<>>
    /\ basin_id = 0
    /\ station_dfs = <<>>
    /\ min_tm = None
    /\ max_tm = None
    /\ full_tm = <<>>
    /\ result_df = <<>>
    /\ P_mean_column = <<>>
    /\ out_csv = [b \in 1..Len(RunBasins) |-> <<>>]
    /\ no_data = <<>>
    /\ station_points = <<>>
    /\ records = <<>>
    /\ station_coords = <<>>
    /\ rainfall_values = <<>>
    /\ basin_polygon = <<>>
    /\ grid_points = <<>>
    /\ estimated_rainfall = <<>>
    /\ weights = <<>>
    /\ valid_points = <<>>
    /\ valid_rainfall = <<>>
    /\ arithmetic_result = Unset
    /\ thiessen_result = Unset
    /\ idw_result = Unset
    /\ P_mean = Unset
    /\ results = <<>>
    /\ exception = ""
    /\ call = ""
    /\ pc = "main"

Init == InitRow \/ InitRun

----------------------------------------------------------------------------
(* Actions *)

\* step1_new.process_rainfall_for_basin, lines 91-118, at one timestamp: every
\* station's records are collapsed and mapped onto the row
ReadStations ==
    /\ pc = "read"
    /\ rainfall_values' = [i \in 1..Len(records) |-> groupby_mean(records[i])]
    /\ pc' = "row"
    /\ UNCHANGED <<station_points, records, basin_polygon, grid_points,
                   estimated_rainfall, weights, valid_points, valid_rainfall, station_coords,
                   arithmetic_result, thiessen_result, idw_result, P_mean, results,
                   exception, call>>
    /\ UNCHANGED run_state

\* a result of a row reduction: a value for P_mean, or the exception that ends the run
Finish(name, r) ==
    /\ call' = name
    /\ IF IsRaise(r)
          THEN /\ exception' = r.k
               /\ pc' = "raised"
               /\ P_mean' = P_mean
          ELSE /\ exception' = exception
               /\ pc' = "done"
               /\ P_mean' = r

\* step1_new, RAIN_MEAN_METHOD == "arithmetic"
Step1NewArithmetic ==
    /\ pc = "row"
    /\ rainfall_values # <<>>          \* if station_dfs and ...
    /\ Finish("step1_new.arithmetic", arithmetic_mean(row_vals(rainfall_values)))
    /\ UNCHANGED <<station_points, records, rainfall_values, basin_polygon, grid_points,
                   estimated_rainfall, weights, valid_points, valid_rainfall, station_coords,
                   arithmetic_result, thiessen_result, idw_result, results>>
    /\ UNCHANGED run_state

\* step1_new, RAIN_MEAN_METHOD == "thiessen"
Step1NewThiessen ==
    /\ pc = "row"
    /\ rainfall_values # <<>>          \* if station_dfs and ...
    /\ \E basin \in Basins :
          /\ basin_polygon' = basin
          /\ \E vor \in Voronoi(row_points(rainfall_values, station_coords)) :
                /\ Finish("step1_new.thiessen",
                          thiessen_row(rainfall_values, station_coords, basin, vor))
                /\ weights' = IF Len(row_points(rainfall_values, station_coords))
                                    >= MinThiessenPoints
                                 THEN thiessen_areas(row_points(rainfall_values, station_coords),
                                                     row_vals(rainfall_values), basin, vor)
                                 ELSE <<>>
    /\ UNCHANGED <<station_points, records, rainfall_values, grid_points,
                   estimated_rainfall, valid_points, valid_rainfall, station_coords,
                   arithmetic_result, thiessen_result, idw_result, results>>
    /\ UNCHANGED run_state

\* step1_new, RAIN_MEAN_METHOD == "idw": inverse_distance_weighting is called with
\* the values alone and raises TypeError for its missing arguments
Step1NewIdw ==
    /\ pc = "row"
    /\ rainfall_values # <<>>          \* if station_dfs and ...
    /\ Finish("step1_new.idw", Raise("TypeError"))
    /\ UNCHANGED <<station_points, records, rainfall_values, basin_polygon, grid_points,
                   estimated_rainfall, weights, valid_points, valid_rainfall, station_coords,
                   arithmetic_result, thiessen_result, idw_result, results>>
    /\ UNCHANGED run_state

\* step1_basin_1h_p_anhui, RAIN_MEAN_METHOD == "thiessen": thiessen_polygon_mean is
\* called with the values alone and raises TypeError for its missing arguments
Step1BasinThiessen ==
    /\ pc = "row"
    /\ rainfall_values # <<>>          \* if station_dfs and ...
    /\ Finish("step1_basin.thiessen", Raise("TypeError"))
    /\ UNCHANGED <<station_points, records, rainfall_values, basin_polygon, grid_points,
                   estimated_rainfall, weights, valid_points, valid_rainfall, station_coords,
                   arithmetic_result, thiessen_result, idw_result, results>>
    /\ UNCHANGED run_state

\* arithmetic_mean(rainfall_values) called on a row as it stands
CallArithmeticMean ==
    /\ pc = "row"
    /\ arithmetic_result' = arithmetic_mean(rainfall_values)
    /\ call' = "arithmetic_mean"
    /\ pc' = "done"
    /\ UNCHANGED <<station_points, records, rainfall_values, basin_polygon, grid_points,
                   estimated_rainfall, weights, valid_points, valid_rainfall, station_coords,
                   thiessen_result, idw_result, P_mean, results, exception>>
    /\ UNCHANGED run_state

\* thiessen_polygon_mean(station_points, rainfall_values, basin_polygon) called on a
\* row as it stands
CallThiessenPolygonMean ==
    /\ pc = "row"
    /\ \E basin \in Basins :
          /\ basin_polygon' = basin
          /\ \E vor \in Voronoi(thiessen_valid_points(station_points, rainfall_values)) :
                LET r == thiessen_polygon_mean(station_points, rainfall_values, basin, vor)
                IN  /\ weights' = thiessen_areas(station_points, rainfall_values, basin, vor)
                    /\ IF IsRaise(r)
                          THEN /\ exception' = r.k
                               /\ pc' = "raised"
                               /\ thiessen_result' = thiessen_result
                          ELSE /\ exception' = exception
                               /\ pc' = "done"
                               /\ thiessen_result' = r
    /\ call' = "thiessen_polygon_mean"
    /\ UNCHANGED <<station_points, records, rainfall_values, grid_points,
                   estimated_rainfall, valid_points, valid_rainfall, station_coords,
                   arithmetic_result, idw_result, P_mean, results>>
    /\ UNCHANGED run_state

\* inverse_distance_weighting(station_points, rainfall_values, grid_points) called on
\* a row as it stands
CallInverseDistanceWeighting ==
    /\ pc = "row"
    /\ \E grid \in GridChoices :
          /\ grid_points' = grid
          /\ estimated_rainfall' =
                idw_estimates(station_points, rainfall_values, grid, p_default)
          /\ idw_result' =
                inverse_distance_weighting(station_points, rainfall_values, grid, p_default)
    /\ call' = "inverse_distance_weighting"
    /\ pc' = "done"
    /\ UNCHANGED <<station_points, records, rainfall_values, basin_polygon, weights,
                   valid_points, valid_rainfall, station_coords, arithmetic_result,
                   thiessen_result, P_mean, results, exception>>
    /\ UNCHANGED run_state

\* calculate_basin_rainfall, lines 41 and 76-104, for one date: the valid stations
\* are collected; a date without any is skipped
CbrSelectValid ==
    /\ pc = "read"
    /\ \E basin \in Basins : basin_polygon' = basin
    /\ LET idx == cbr_valid_indices(records)
       IN  /\ valid_rainfall' = [j \in 1..Len(idx) |-> first_record(records[idx[j]])]
           /\ valid_points' = Pick(station_points, idx)
           /\ pc' = IF Len(idx) = 0 THEN "cbr_skipped" ELSE "cbr_valid"
    /\ call' = "calculate_basin_rainfall"
    /\ UNCHANGED <<station_points, records, rainfall_values, grid_points,
                   estimated_rainfall, weights, station_coords, arithmetic_result,
                   thiessen_result, idw_result, P_mean, results, exception>>
    /\ UNCHANGED run_state

\* calculate_basin_rainfall, lines 106-110: an exception of thiessen_polygon_mean
\* leaves the function
CbrArithmeticThiessen ==
    /\ pc = "cbr_valid"
    /\ arithmetic_result' = arithmetic_mean(valid_rainfall)
    /\ \E vor \in Voronoi(thiessen_valid_points(valid_points, valid_rainfall)) :
          LET r == thiessen_polygon_mean(valid_points, valid_rainfall, basin_polygon, vor)
          IN  /\ weights' = thiessen_areas(valid_points, valid_rainfall, basin_polygon, vor)
              /\ IF IsRaise(r)
                    THEN /\ exception' = r.k
                         /\ pc' = "raised"
                         /\ thiessen_result' = thiessen_result
                    ELSE /\ exception' = exception
                         /\ pc' = "cbr_idw"
                         /\ thiessen_result' = r
    /\ UNCHANGED <<station_points, records, rainfall_values, basin_polygon, grid_points,
                   estimated_rainfall, valid_points, valid_rainfall, station_coords,
                   idw_result, P_mean, results, call>>
    /\ UNCHANGED run_state

\* calculate_basin_rainfall, lines 112-127
CbrIdw ==
    /\ pc = "cbr_idw"
    /\ LET grid == basin_grid(basin_polygon, grid_size)
       IN  /\ grid_points' = grid
           /\ estimated_rainfall' = idw_estimates(valid_points, valid_rainfall, grid, p_default)
           /\ idw_result' =
                 inverse_distance_weighting(valid_points, valid_rainfall, grid, p_default)
    /\ pc' = "cbr_append"
    /\ UNCHANGED <<station_points, records, rainfall_values, basin_polygon, weights,
                   valid_points, valid_rainfall, station_coords, arithmetic_result,
                   thiessen_result, P_mean, results, exception, call>>
    /\ UNCHANGED run_state

\* calculate_basin_rainfall, lines 129-138
CbrAppend ==
    /\ pc = "cbr_append"
    /\ results' = Append(results, [StationCount |-> Len(valid_points),
                                   ArithmeticMean |-> arithmetic_result,
                                   ThiessenPolygon |-> thiessen_result,
                                   IDW |-> idw_result])
    /\ pc' = "cbr_done"
    /\ UNCHANGED <<station_points, records, rainfall_values, basin_polygon, grid_points,
                   estimated_rainfall, weights, valid_points, valid_rainfall, station_coords,
                   arithmetic_result, thiessen_result, idw_result, P_mean, exception,
                   call>>
    /\ UNCHANGED run_state

\* main, lines 165-181: the station sets of all basins
MainCollect ==
    /\ pc = "main"
    /\ basin_station_map' =
          collect_stations_in_buffer(stations_gdf, basins_gdf, BUFFER_DISTANCE)
    /\ pc' = "loop"
    /\ UNCHANGED <<row_state, station_coords, exception, script, RAIN_MEAN_METHOD,
                   stations_gdf, basins_gdf, rainfall_folder, listdir, basin_id, station_dfs,
                   min_tm, max_tm, full_tm, result_df, P_mean_column, out_csv, no_data>>

\* main, line 184: the loop takes the next basin and calls
\* process_rainfall_for_basin, whose locals start empty (lines 82-84)
MainNextBasin ==
    /\ pc = "loop"
    /\ basin_id < Len(basin_station_map)
    /\ basin_id' = basin_id + 1
    /\ station_dfs' = <<>>
    /\ station_coords' = <<>>
    /\ min_tm' = None
    /\ max_tm' = None
    /\ full_tm' = <<>>
    /\ result_df' = <<>>
    /\ P_mean_column' = <<>>
    /\ pc' = "p_read"
    /\ UNCHANGED <<row_state, exception, script, RAIN_MEAN_METHOD, stations_gdf,
                   basins_gdf, rainfall_folder, listdir, basin_station_map, out_csv, no_data>>

\* main, lines 192-197: the loop is over
MainOutput ==
    /\ pc = "loop"
    /\ basin_id = Len(basin_station_map)
    /\ pc' = "main_done"
    /\ UNCHANGED <<row_state, station_coords, exception, run_state>>

\* process_rainfall_for_basin, lines 91-110: the loop over station_codes;
\* step1_new keeps the coordinates of the stations it has read
ProcessRead ==
    /\ pc = "p_read"
    /\ LET station_codes == basin_station_map[basin_id]
           read == read_stations(station_codes,
                                 files_read(DOMAIN stations_gdf, rainfall_folder, listdir),
                                 Len(station_codes))
       IN  /\ station_dfs' = read.station_dfs
           /\ min_tm' = read.min_tm
           /\ max_tm' = read.max_tm
           /\ station_coords' =
                 IF script = "step1_new"
                    THEN [c \in 1..Len(read.station_dfs) |->
                             <<stations_gdf[read.station_dfs[c].stcd]>>]
                    ELSE <<>>
    /\ pc' = "p_align"
    /\ UNCHANGED <<row_state, exception, script, RAIN_MEAN_METHOD, stations_gdf,
                   basins_gdf, rainfall_folder, listdir, basin_station_map, basin_id, full_tm,
                   result_df, P_mean_column, out_csv, no_data>>

\* process_rainfall_for_basin, lines 112-118: the axis and the station columns;
\* a NaT bound makes pd.date_range raise
ProcessAlign ==
    /\ pc = "p_align"
    /\ has_station_data(station_dfs, min_tm, max_tm)
    /\ IF date_range_fails(min_tm, max_tm)
          THEN /\ exception' = "ValueError"
               /\ pc' = "raised"
               /\ UNCHANGED <<full_tm, result_df>>
          ELSE /\ full_tm' = date_range(min_tm, max_tm)
               /\ result_df' = build_result_df(date_range(min_tm, max_tm), station_dfs)
               /\ pc' = "p_average"
               /\ UNCHANGED exception
    /\ UNCHANGED <<row_state, station_coords, script, RAIN_MEAN_METHOD, stations_gdf,
                   basins_gdf, rainfall_folder, listdir, basin_station_map, basin_id, station_dfs,
                   min_tm, max_tm, P_mean_column, out_csv, no_data>>

\* process_rainfall_for_basin, lines 152-153
ProcessNoData ==
    /\ pc = "p_align"
    /\ ~has_station_data(station_dfs, min_tm, max_tm)
    /\ no_data' = Append(no_data, basin_id)
    /\ pc' = "loop"
    /\ UNCHANGED <<row_state, station_coords, exception, script, RAIN_MEAN_METHOD,
                   stations_gdf, basins_gdf, rainfall_folder, listdir, basin_station_map, basin_id,
                   station_dfs, min_tm, max_tm, full_tm, result_df, P_mean_column,
                   out_csv>>

\* process_rainfall_for_basin, lines 120-142: apply(..., axis=1) reaches the next
\* row; an exception of the reduction leaves main()
ProcessAverageRow ==
    /\ pc = "p_average"
    /\ ~apply_finished(P_mean_column, result_df)
    /\ LET row == result_df[Len(P_mean_column) + 1]
       IN  \E vor \in IF script = "step1_new" /\ RAIN_MEAN_METHOD = "thiessen"
                           THEN Voronoi(row_points(row, station_coords))
                           ELSE {<<>>} :
              LET r == reduce_row(script, RAIN_MEAN_METHOD, row, station_coords,
                                  basins_gdf[basin_id], vor)
              IN  /\ IF IsRaise(r)
                        THEN /\ exception' = r.k
                             /\ pc' = "raised"
                             /\ UNCHANGED P_mean_column
                        ELSE /\ P_mean_column' = Append(P_mean_column, r)
                             /\ UNCHANGED <<exception, pc>>
                  /\ weights' =
                        IF /\ script = "step1_new" /\ RAIN_MEAN_METHOD = "thiessen"
                           /\ Len(row_points(row, station_coords)) >= MinThiessenPoints
                           THEN thiessen_areas(row_points(row, station_coords),
                                               row_vals(row), basins_gdf[basin_id], vor)
                           ELSE <<>>
    /\ UNCHANGED <<station_points, records, rainfall_values, basin_polygon, grid_points,
                   estimated_rainfall, valid_points, valid_rainfall, arithmetic_result,
                   thiessen_result, idw_result, P_mean, results, call>>
    /\ UNCHANGED <<station_coords, script, RAIN_MEAN_METHOD, stations_gdf,
                   basins_gdf, rainfall_folder, listdir, basin_station_map, basin_id, station_dfs,
                   min_tm, max_tm, full_tm, result_df, out_csv, no_data>>

\* process_rainfall_for_basin, lines 144-151: the table is written
ProcessSave ==
    /\ pc = "p_average"
    /\ apply_finished(P_mean_column, result_df)
    /\ out_csv' = [out_csv EXCEPT ![out_name(basin_id)] =
                      <<to_csv(full_tm, P_mean_column, station_dfs, result_df)>>]
    /\ pc' = "loop"
    /\ UNCHANGED <<row_state, station_coords, exception, script, RAIN_MEAN_METHOD,
                   stations_gdf, basins_gdf, rainfall_folder, listdir, basin_station_map, basin_id,
                   station_dfs, min_tm, max_tm, full_tm, result_df, P_mean_column,
                   no_data>>

Next ==
    \/ ReadStations
    \/ Step1NewArithmetic
    \/ Step1NewThiessen
    \/ Step1NewIdw
    \/ Step1BasinThiessen
    \/ CallArithmeticMean
    \/ CallThiessenPolygonMean
    \/ CallInverseDistanceWeighting
    \/ CbrSelectValid
    \/ CbrArithmeticThiessen
    \/ CbrIdw
    \/ CbrAppend
    \/ MainCollect
    \/ MainNextBasin
    \/ MainOutput
    \/ ProcessRead
    \/ ProcessAlign
    \/ ProcessNoData
    \/ ProcessAverageRow
    \/ ProcessSave

Spec == Init /\ [][Next]_vars

----------------------------------------------------------------------------
(* Properties.  The expected values are written from their definitions, not
   with the operators of the program above. *)

\* indices of the non-missing values of a row
ValidSet(values) == {i \in DOMAIN values : values[i].k = "num"}

RECURSIVE SumOver(_, _)
SumOver(values, S) ==
    IF S = {} THEN Num(0)
    ELSE LET i == CHOOSE x \in S : TRUE
         IN  RAdd(values[i], SumOver(values, S \ {i}))

\* r is the mean of the non-missing values of the row, NaN when there is none
IsMeanOf(r, values) ==
    LET V == ValidSet(values)
        total == SumOver(values, V)
    IN  IF V = {} THEN r = NaN
        ELSE r = RDiv(total, Num(Cardinality(V)))

\* the state after a call of the Thiessen strategy of one of its callers
ThiessenCalled ==
    \/ call \in {"thiessen_polygon_mean", "step1_new.thiessen", "step1_basin.thiessen"}
          /\ pc \in {"done", "raised"}
    \/ call = "calculate_basin_rainfall" /\ pc \in {"cbr_idw", "raised"}

\* the row the Thiessen strategy was given, and what it gave back
ThiessenRow == IF call = "calculate_basin_rainfall" THEN valid_rainfall ELSE rainfall_values
ThiessenPoints == IF call = "calculate_basin_rainfall" THEN valid_points ELSE station_points
ThiessenOutcome ==
    IF pc = "raised" THEN Raise(exception)
    ELSE IF call \in {"thiessen_polygon_mean", "calculate_basin_rainfall"} THEN thiessen_result
    ELSE P_mean

\* C1: on every path that invokes the Thiessen strategy, a row with fewer than
\* three valid stations yields the arithmetic mean of its valid values (NaN when
\* it has none), and the call never raises
C1_ThiessenDegradation ==
    (ThiessenCalled /\ Cardinality(ValidSet(ThiessenRow)) < 3)
        => /\ pc # "raised"
           /\ IsMeanOf(ThiessenOutcome, ThiessenRow)

\* the cell of valid station i: the basin cut by the bisector to every other site
TrueCellArea(points, i, basin) == PolygonArea(CellIntersection(points, i, basin))

DistinctSites(points) ==
    \A i, j \in 1..Len(points) : i # j => Dist2(points[i], points[j]).n # 0

\* thiessen_polygon_mean has returned for a row of at least three valid stations
\* at distinct places
ThiessenReturned ==
    /\ call = "thiessen_polygon_mean"
    /\ pc = "done"
    /\ Cardinality(ValidSet(rainfall_values)) >= 3
    /\ DistinctSites(thiessen_valid_points(station_points, rainfall_values))

\* C2: the weight of every valid station is the area of its Voronoi cell inside
\* the basin, and the result is the weighted sum over the total weight
C2_ThiessenWeighting ==
    ThiessenReturned =>
        LET pts == thiessen_valid_points(station_points, rainfall_values)
            vals == Pick(rainfall_values, notna_indices(rainfall_values))
            m == Len(pts)
            area == [i \in 1..m |-> TrueCellArea(pts, i, basin_polygon)]
            total == SumOver(area, 1..m)
            weighted == SumOver([i \in 1..m |-> RMul(vals[i], area[i])], 1..m)
        IN  /\ weights = area
            /\ thiessen_result = IF RLt(Num(0), total) THEN RDiv(weighted, total) ELSE NaN

\* C3: for a row of at least three valid stations the weights add up to the
\* area of the basin
C3_PartitionOfUnity ==
    ThiessenReturned =>
        SumOver(weights, DOMAIN weights) = PolygonArea(basin_polygon)

\* C4: the Arithmetic strategy returns the mean of the non-missing values of the
\* row ({2, 4, missing} gives 3.0) and NaN when every value is missing
C4_ArithmeticMean ==
    /\ (call = "arithmetic_mean" /\ pc = "done")
          => IsMeanOf(arithmetic_result, rainfall_values)
    /\ (call = "step1_new.arithmetic" /\ pc = "done")
          => IsMeanOf(P_mean, rainfall_values)
    /\ (call = "calculate_basin_rainfall" /\ pc \in {"cbr_idw", "cbr_append", "cbr_done"})
          => IsMeanOf(arithmetic_result, valid_rainfall)
    /\ arithmetic_mean(<<Num(2), Num(4), NaN>>) = Num(3)
    /\ arithmetic_mean(<<NaN, NaN>>) = NaN

\* a row with a missing value and two different valid ones has been averaged
C4_Witness ==
    /\ call = "arithmetic_mean"
    /\ pc = "done"
    /\ \E i \in DOMAIN rainfall_values : isna(rainfall_values[i])
    /\ \E i, j \in ValidSet(rainfall_values) : rainfall_values[i] # rainfall_values[j]
    /\ arithmetic_result.k = "num"

\* the state after a call of the IDW strategy
IdwCalled ==
    \/ call = "inverse_distance_weighting" /\ pc = "done"
    \/ call = "calculate_basin_rainfall" /\ pc \in {"cbr_append", "cbr_done"}

IdwRow == IF call = "calculate_basin_rainfall" THEN valid_rainfall ELSE rainfall_values
IdwPoints == IF call = "calculate_basin_rainfall" THEN valid_points ELSE station_points

\* the stations with a value that lie on grid point g
Coincident(g) ==
    {i \in ValidSet(IdwRow) : Dist2(IdwPoints[i], grid_points[g]).n = 0}

\* C5 as stated: the estimate at a grid point at distance 0 from a station is
\* that station's value, whatever the other stations are
C5_CoincidenceAnyStation ==
    IdwCalled =>
        \A g \in DOMAIN estimated_rainfall :
            \A i \in Coincident(g) : estimated_rainfall[g] = IdwRow[i]

\* C5: the estimate at a grid point at distance 0 from a station is that
\* station's value, whatever the stations elsewhere are, when the stations at
\* that point agree on the value (the only station there is such a case)
C5_CoincidenceAgreed ==
    IdwCalled =>
        \A g \in DOMAIN estimated_rainfall :
            \A i \in Coincident(g) :
                (\A j \in Coincident(g) : IdwRow[j] = IdwRow[i])
                    => estimated_rainfall[g] = IdwRow[i]

\* a grid point lies on a station and a station elsewhere holds another value
C5_Witness ==
    /\ IdwCalled
    /\ \E g \in DOMAIN estimated_rainfall :
          \E i \in Coincident(g) :
              /\ \E j \in ValidSet(IdwRow) \ Coincident(g) : IdwRow[j] # IdwRow[i]
              /\ estimated_rainfall[g] = IdwRow[i]

\* the state after a call of one of the three functions of rainfall_methods
FunctionCalled ==
    /\ call \in {"arithmetic_mean", "thiessen_polygon_mean", "inverse_distance_weighting"}
    /\ pc \in {"done", "raised"}

FunctionResult ==
    IF call = "arithmetic_mean" THEN arithmetic_result
    ELSE IF call = "thiessen_polygon_mean" THEN thiessen_result
    ELSE idw_result

\* C6: with no valid station each of the three functions returns NaN and raises
\* nothing
C6_ZeroValidStations ==
    (FunctionCalled /\ ValidSet(rainfall_values) = {})
        => /\ pc = "done"
           /\ FunctionResult = NaN

\* thiessen_polygon_mean has returned for three stations that all miss their value
C6_Witness ==
    /\ call = "thiessen_polygon_mean"
    /\ pc = "done"
    /\ Len(rainfall_values) >= 3
    /\ ValidSet(rainfall_values) = {}
    /\ thiessen_result = NaN

\* P lies in the interior of the convex polygon: the triangles from P to the
\* edges are proper and fill the polygon
InteriorPoint(poly, P) ==
    LET n == Len(poly)
        tri == [i \in 1..n |-> PolygonArea(<<P, poly[i], poly[(i % n) + 1]>>)]
    IN  /\ \A i \in 1..n : tri[i].n > 0
        /\ SumOver(tri, 1..n) = PolygonArea(poly)

\* e is the inverse-distance estimate at grid point g with weights 1 / d^2
IsIdwEstimate(e, g) ==
    LET V == ValidSet(IdwRow)
        w == [i \in DOMAIN IdwRow |->
                 IF i \in V /\ Coincident(g) = {}
                    THEN RInv(Dist2(IdwPoints[i], grid_points[g])) ELSE Num(0)]
        wv == [i \in DOMAIN IdwRow |-> IF i \in V THEN RMul(w[i], IdwRow[i]) ELSE Num(0)]
    IN  IF Coincident(g) # {} THEN \E i \in Coincident(g) : e = IdwRow[i]
        ELSE e = RDiv(SumOver(wv, V), SumOver(w, V))

ScenarioPoints == <<Pt(1, 1), Pt(9, 1), Pt(5, 9)>>
ScenarioValues == <<Num(10), Num(20), Num(30)>>
ScenarioBasin == <<Pt(0, 0), Pt(10, 0), Pt(10, 10), Pt(0, 10)>>

\* C8: on the scenario the Arithmetic strategy gives 20.0, the Thiessen strategy
\* a value within [10, 30] and IDW at the centroid a value strictly between 10
\* and 30
C8_EndToEndScenario ==
    (FunctionCalled /\ station_points = ScenarioPoints /\ rainfall_values = ScenarioValues)
        => /\ call = "arithmetic_mean" => arithmetic_result = Num(20)
           /\ (call = "thiessen_polygon_mean" /\ basin_polygon = ScenarioBasin)
                 => /\ pc = "done"
                    /\ thiessen_result.k = "num"
                    /\ RLe(Num(10), thiessen_result)
                    /\ RLe(thiessen_result, Num(30))
           /\ (call = "inverse_distance_weighting" /\ grid_points = <<Pt(5, 5)>>)
                 => /\ idw_result.k = "num"
                    /\ RLt(Num(10), idw_result)
                    /\ RLt(idw_result, Num(30))

Perms(n) == {f \in [1..n -> 1..n] : \A i, j \in 1..n : i # j => f[i] # f[j]}
Permuted(s, f) == [i \in 1..Len(s) |-> s[f[i]]]

\* C9: the result of each of the three strategies is the same for every order of
\* the stations of the row, two stations at one place included
C9_OrderIndependence ==
    (FunctionCalled /\ pc = "done")
        => \A f \in Perms(Len(rainfall_values)) :
              LET pts == Permuted(station_points, f)
                  vals == Permuted(rainfall_values, f)
              IN  /\ call = "arithmetic_mean" => arithmetic_mean(vals) = arithmetic_result
                  /\ call = "inverse_distance_weighting"
                        => inverse_distance_weighting(pts, vals, grid_points, p_default)
                              = idw_result
                  /\ call = "thiessen_polygon_mean"
                        => \E vor \in Voronoi(thiessen_valid_points(pts, vals)) :
                              thiessen_polygon_mean(pts, vals, basin_polygon, vor)
                                  = thiessen_result

\* C10: on every path the records a station has at one timestamp reach the
\* averaging strategies as their mean, never as the first of them
C10_Deduplication ==
    /\ pc = "row"
          => \A i \in DOMAIN records : IsMeanOf(rainfall_values[i], records[i])
    /\ (call = "calculate_basin_rainfall" /\ pc \in {"cbr_valid", "cbr_skipped"})
          => \A i \in DOMAIN records :
                ValidSet(records[i]) # {}
                    => \E j \in DOMAIN valid_rainfall :
                          /\ valid_points[j] = station_points[i]
                          /\ IsMeanOf(valid_rainfall[j], records[i])

----------------------------------------------------------------------------
(* Properties of main() and process_rainfall_for_basin.  The basin in hand is
   basins_gdf[basin_id]; what is expected of it is written from the station
   files and the shapes, not from the variables the program has set. *)

\* the elements of a sequence
Elems(seq) == {seq[i] : i \in 1..Len(seq)}

\* the file the rainfall folder gives for station code s: the first file of the
\* listing whose name holds "<s>-1h_processed.xlsx", and none when there is no
\* such file
StationFile(s) == files_read(DOMAIN stations_gdf, rainfall_folder, listdir)[s]

\* the stations associated with the basin in hand that have a file
BasinFiles == {s \in Elems(basin_station_map[basin_id]) : StationFile(s).exists}

\* the timestamps of the readings of a station file
FileTicks(s) == {StationFile(s).rows[i].TM : i \in 1..Len(StationFile(s).rows)}

\* the timestamps of all readings of the stations of the basin in hand
BasinTicks == UNION {FileTicks(s) : s \in BasinFiles}

MinTick(S) == CHOOSE x \in S : \A y \in S : x <= y
MaxTick(S) == CHOOSE x \in S : \A y \in S : y <= x

\* the basin in hand has its axis and its station columns
Aligned == pc = "p_average"

\* consecutive timestamps of an axis are one hour apart
Hourly(axis) == \A i \in 1..(Len(axis) - 1) : axis[i + 1] - axis[i] = TicksPerHour

ReadingsAt(s, tm) ==
    [i \in {q \in 1..Len(StationFile(s).rows) : StationFile(s).rows[q].TM = tm}
        |-> StationFile(s).rows[i].DRP]

\* the columns of the aligned table are the stations of the basin that have a file
ColumnsAreBasinFiles ==
    /\ {station_dfs[c].stcd : c \in 1..Len(station_dfs)} = BasinFiles
    /\ \A c, e \in 1..Len(station_dfs) : station_dfs[c].stcd = station_dfs[e].stcd => c = e

\* every cell of the aligned table holds the station's deduplicated value at
\* the timestamp of its row, and the missing marker where the station has no
\* reading at that timestamp
CellsOfAxis ==
    /\ Len(result_df) = Len(full_tm)
    /\ \A r \in 1..Len(full_tm) :
          /\ Len(result_df[r]) = Len(station_dfs)
          /\ \A c \in 1..Len(station_dfs) :
                IF full_tm[r] \in FileTicks(station_dfs[c].stcd)
                   THEN IsMeanOf(result_df[r][c], ReadingsAt(station_dfs[c].stcd, full_tm[r]))
                   ELSE result_df[r][c] = NaN

\* every deduplicated reading of every station is in the aligned table at its
\* own timestamp
EveryReadingInTable ==
    \A c \in 1..Len(station_dfs) :
       \A tm \in FileTicks(station_dfs[c].stcd) :
          \E r \in 1..Len(full_tm) :
             /\ full_tm[r] = tm
             /\ IsMeanOf(result_df[r][c], ReadingsAt(station_dfs[c].stcd, tm))

\* C12: for every station column and every axis timestamp the cell holds the
\* station's deduplicated value if the station has a reading at that timestamp
\* and the missing marker (never zero) otherwise, and every deduplicated
\* reading of every station appears at its own timestamp in the aligned table
C12_Reindexing ==
    Aligned => ColumnsAreBasinFiles /\ CellsOfAxis /\ EveryReadingInTable

\* the part of C12 about the cells of the axis alone
C12_CellsOfAxis ==
    Aligned => ColumnsAreBasinFiles /\ CellsOfAxis

\* process_rainfall_for_basin has passed its test of line 112 for the basin in hand
PastAlignment ==
    /\ script # ""
    /\ basin_id >= 1
    /\ pc \in {"p_average", "loop", "raised", "main_done"}

\* the basin in hand was skipped: it is reported as without data, nothing is
\* written for it and no exception was raised
SkippedNoData ==
    /\ basin_id \in Elems(no_data)
    /\ out_csv[basin_id] = <<>>
    /\ pc # "raised"

\* C13: a basin given zero stations, or whose stations all have zero readings,
\* fails alignment as an empty input: the basin ends skipped, nothing is
\* persisted for it
C13_EmptyInputSkipped ==
    (PastAlignment /\ BasinTicks = {}) => SkippedNoData

\* the part of C13 about a basin without any station series
C13_NoSeriesSkipped ==
    (PastAlignment /\ BasinFiles = {}) => SkippedNoData

\* the squared distance of a station to the outline of a basin
OutlineDist2(P, poly) ==
    LET ds == {SegDist2(P, poly[i], poly[(i % Len(poly)) + 1]) : i \in 1..Len(poly)}
    IN  CHOOSE x \in ds : \A y \in ds : ~RLt(y, x)

\* the station lies in the buffered region of the basin, the boundary of the
\* region included: it lies in the basin or at most the buffer distance from it
InBufferedRegion(P, poly) ==
    Contains(poly, P) \/ ~RLt(Num(BUFFER_DISTANCE * BUFFER_DISTANCE), OutlineDist2(P, poly))

\* the station lies in the buffered region of the basin but not on its boundary
InsideBufferedRegion(P, poly) ==
    Contains(poly, P) \/ RLt(OutlineDist2(P, poly), Num(BUFFER_DISTANCE * BUFFER_DISTANCE))

\* main() has associated the stations with the basins
Associated == script # "" /\ pc # "main"

\* C14: for every basin the associated station set is exactly the set of
\* stations whose point lies in the buffered region of the basin, a station
\* exactly on the boundary of the buffered region included
C14_StationAssociation ==
    Associated =>
        \A b \in 1..Len(basins_gdf) :
            Elems(basin_station_map[b]) =
                {i \in 1..Len(stations_gdf) : InBufferedRegion(stations_gdf[i], basins_gdf[b])}

\* the association that holds: the stations strictly inside the buffered region
C14_InteriorAssociation ==
    Associated =>
        \A b \in 1..Len(basins_gdf) :
            Elems(basin_station_map[b]) =
                {i \in 1..Len(stations_gdf) : InsideBufferedRegion(stations_gdf[i], basins_gdf[b])}

\* no station lies in the buffered region of basin b
NoStationNear(b) ==
    \A i \in 1..Len(stations_gdf) : ~InBufferedRegion(stations_gdf[i], basins_gdf[b])

\* C15: when zero stations fall in a basin's buffered region, the association
\* of the basin is the empty set and raises nothing, and the basin is skipped:
\* it is reported as without data and the run goes on, and nothing is aligned,
\* averaged or persisted for it
C15_EmptyAssociationSkipped ==
    Associated =>
        \A b \in 1..Len(basins_gdf) :
            NoStationNear(b) =>
                /\ basin_station_map[b] = <<>>
                /\ out_csv[b] = <<>>
                /\ basin_id = b =>
                      /\ pc \in {"p_read", "p_align", "loop"}
                      /\ exception = ""
                      /\ full_tm = <<>> /\ result_df = <<>> /\ P_mean_column = <<>>
                /\ (basin_id > b \/ (basin_id = b /\ pc = "loop")) => b \in Elems(no_data)

\* a run has passed a basin without stations and has gone on to write the
\* table of a later basin
C15_Witness ==
    /\ Associated
    /\ \E b \in 1..Len(basins_gdf) :
          /\ NoStationNear(b)
          /\ b \in Elems(no_data)
          /\ \E later \in (b + 1)..Len(basins_gdf) : out_csv[later] # <<>>

\* the stage of basin b.  Skipped is the end of a basin without data and Failed
\* the end of a basin whose processing raised
Stage(b) ==
    IF pc = "main" THEN "Unresolved"
    ELSE IF out_csv[b] # <<>> THEN "Persisted"
    ELSE IF b \in Elems(no_data) THEN "Skipped"
    ELSE IF basin_id # b THEN "StationsAssociated"
    ELSE IF pc = "raised" THEN "Failed"
    ELSE IF pc = "p_average"
        THEN IF Len(P_mean_column) = Len(result_df) THEN "Averaged" ELSE "Aligned"
    ELSE "StationsAssociated"

\* the steps from a stage to the next one, and the two ways out of the order
StageSteps ==
    { <<"Unresolved", "StationsAssociated">>,
      <<"StationsAssociated", "Aligned">>,
      <<"Aligned", "Averaged">>,
      <<"Averaged", "Persisted">>,
      <<"StationsAssociated", "Skipped">>,
      <<"StationsAssociated", "Failed">>,
      <<"Aligned", "Failed">> }

\* what a stage of basin b rests on: the table of an aligned basin has a row
\* per timestamp of its axis, an averaged basin has an areal value for every
\* row, and a persisted table holds an areal value for every row
StageComplete(b) ==
    /\ Stage(b) \in {"Aligned", "Averaged"} =>
          /\ full_tm # <<>>
          /\ Len(result_df) = Len(full_tm)
          /\ Len(P_mean_column) <= Len(result_df)
          /\ \A r \in 1..Len(P_mean_column) : P_mean_column[r] # Unset
    /\ Stage(b) = "Persisted" =>
          /\ out_csv[b][1].time # <<>>
          /\ Len(out_csv[b][1].rows) = Len(out_csv[b][1].time)
          /\ Len(out_csv[b][1].p_anhui) = Len(out_csv[b][1].time)
          /\ \A r \in 1..Len(out_csv[b][1].time) : out_csv[b][1].p_anhui[r] # Unset

\* C16: every basin goes through Unresolved, StationsAssociated, Aligned,
\* Averaged and Persisted strictly in that order: its stage changes only to the
\* next one (or ends in Skipped or Failed), no stage is entered before the one
\* before it is complete, a persisted table is never written again, and a table
\* is persisted only after the areal value of every row has been computed
C16_StageOrder ==
    /\ [](script # "" => \A b \in 1..Len(basins_gdf) : StageComplete(b))
    /\ [][script # "" =>
             \A b \in 1..Len(basins_gdf) :
                /\ Stage(b)' # Stage(b) => <<Stage(b), Stage(b)'>> \in StageSteps
                /\ Stage(b) = "Persisted" => out_csv'[b] = out_csv[b]]_vars

\* a basin with a table of several rows has been persisted
C16_Witness ==
    /\ script # ""
    /\ \E b \in 1..Len(basins_gdf) :
          /\ Stage(b) = "Persisted"
          /\ Len(out_csv[b][1].time) >= 2

\* an exception of the basin in hand has left process_rainfall_for_basin and
\* main(): the run is over and the basins after it are not processed
RunAborted == script # "" /\ pc = "raised"

\* C17: a failure of a stage of one basin moves only that basin to Skipped with
\* a recorded reason and every remaining basin is still processed: no failure
\* of a basin ends the run, and a basin that failed is among the reported ones
C17_FailureIsolation ==
    /\ ~RunAborted
    /\ script # "" =>
          \A b \in 1..Len(basins_gdf) :
             Stage(b) \in {"Skipped", "Failed"} => b \in Elems(no_data)

\* the table written for the basin in hand
Saved == script # "" /\ pc = "loop" /\ basin_id >= 1 /\ out_csv[basin_id] # <<>>

\* the series written for the basin in hand has every timestamp of the axis of
\* the basin, and a row without any valid station is in it with the missing marker
SeriesKeepsAxis ==
    Saved =>
        LET out == out_csv[basin_id][1]
        IN  /\ out.time = full_tm
            /\ Len(out.p_anhui) = Len(full_tm)
            /\ \A r \in 1..Len(full_tm) :
                  ValidSet(result_df[r]) = {} => out.p_anhui[r] = NaN

\* calculate_basin_rainfall is through with a date that is in the rainfall data
CbrDateDone ==
    /\ call = "calculate_basin_rainfall"
    /\ pc \in {"cbr_skipped", "cbr_done"}
    /\ \E i \in 1..Len(records) : records[i] # <<>>

\* the results of calculate_basin_rainfall have a row for the date, with the
\* missing marker when no station is valid at the date
ResultsKeepDate ==
    CbrDateDone =>
        /\ Len(results) = 1
        /\ valid_rainfall = <<>> => results[1].ArithmeticMean = NaN

\* C18: every timestamp of a basin's axis appears in its output series; a
\* timestamp whose reduction yields NaN (no valid station, or zero total
\* weight) is kept with the missing marker, is not dropped from the series and
\* does not fail the basin
C18_NaNPreservation == SeriesKeepsAxis /\ ResultsKeepDate

\* the part of C18 that holds: the series process_rainfall_for_basin writes
C18_SeriesKeepsAxis == SeriesKeepsAxis

\* the basin in hand has its aligned table, whatever became of it afterwards
HasAlignedTable == script # "" /\ basin_id >= 1 /\ full_tm # <<>>

\* C19: for each configured strategy (arithmetic, thiessen, idw) the step from
\* Aligned to Averaged applies the reduction of that strategy once per row of
\* the aligned table and produces one areal series for the basin: the
\* reduction raises nothing for want of its arguments, every row gets a value,
\* which under the arithmetic strategy is the mean of the valid values of the
\* row, and the series that is written has a value per timestamp
C19_ConfiguredStrategy ==
    HasAlignedTable =>
        /\ exception = ""
        /\ \A r \in 1..Len(P_mean_column) :
              /\ P_mean_column[r] # Unset
              /\ RAIN_MEAN_METHOD = "arithmetic" => IsMeanOf(P_mean_column[r], result_df[r])
        /\ out_csv[basin_id] # <<>> =>
              Len(out_csv[basin_id][1].p_anhui) = Len(full_tm)

\* the strategies under which C19 holds: arithmetic in both pipelines and
\* thiessen in step1_new
C19_WorkingStrategies ==
    (/\ HasAlignedTable
     /\ \/ RAIN_MEAN_METHOD = "arithmetic"
        \/ RAIN_MEAN_METHOD = "thiessen" /\ script = "step1_new") =>
        /\ exception = ""
        /\ \A r \in 1..Len(P_mean_column) :
              /\ P_mean_column[r] # Unset
              /\ RAIN_MEAN_METHOD = "arithmetic" => IsMeanOf(P_mean_column[r], result_df[r])

\* a sequence of station codes in the order of stations_gdf, each once
Ascending(seq) == \A i, j \in 1..Len(seq) : i < j => seq[i] < seq[j]

\* the association of every basin as the shapes alone determine it
AssociationFromShapes ==
    \A b \in 1..Len(basins_gdf) :
        /\ Ascending(basin_station_map[b])
        /\ Elems(basin_station_map[b]) =
              {i \in 1..Len(stations_gdf) : InsideBufferedRegion(stations_gdf[i], basins_gdf[b])}

\* the axis and the station columns of the basin in hand as the station files
\* alone determine them
TableFromFiles ==
    /\ full_tm[1] = MinTick(BasinTicks)
    /\ Hourly(full_tm)
    /\ full_tm[Len(full_tm)] <= MaxTick(BasinTicks)
    /\ MaxTick(BasinTicks) < full_tm[Len(full_tm)] + TicksPerHour
    /\ ColumnsAreBasinFiles
    /\ Ascending([c \in 1..Len(station_dfs) |-> station_dfs[c].stcd])
    /\ CellsOfAxis

\* C20: for the same basins, stations and readings, the association of basins
\* and stations and the aligned station columns (axis and values per station)
\* are the same under every configured strategy and only the areal-mean column
\* differs: the association is what the shapes determine, the aligned table is
\* what the station files determine, whatever the strategy and the pipeline,
\* and the table that is written carries the axis and the station columns of
\* the aligned table as they were before the averaging
C20_UpstreamUnchanged ==
    /\ Associated => AssociationFromShapes
    /\ HasAlignedTable => TableFromFiles
    /\ Saved =>
          /\ out_csv[basin_id][1].time = full_tm
          /\ out_csv[basin_id][1].rows = result_df
          /\ out_csv[basin_id][1].stations = [c \in 1..Len(station_dfs) |-> station_dfs[c].stcd]

\* a table has been written under a strategy other than the arithmetic one, with
\* a row in which one station has a value, another has none and the areal mean
\* is a number
C20_Witness ==
    /\ Saved
    /\ RAIN_MEAN_METHOD # "arithmetic"
    /\ \E r \in 1..Len(result_df) :
          /\ out_csv[basin_id][1].p_anhui[r].k = "num"
          /\ \E c, e \in 1..Len(result_df[r]) :
                result_df[r][c] = NaN /\ result_df[r][e].k = "num"

\* basin b has ended as persisted or as skipped
Terminal(b) == Stage(b) \in {"Persisted", "Skipped"}

\* main() has returned with every basin at its end
RunTerminated ==
    /\ pc = "main_done"
    /\ \A b \in 1..Len(basins_gdf) : Terminal(b)

\* the run is over: main() has returned, or an exception has left it
RunStopped == script # "" /\ pc \in {"main_done", "raised"}

\* C21: every basin of a run ends in exactly one of Persisted and Skipped (no
\* basin is both written and reported as without data), and the run terminates
\* after all basins have reached their end: a run that is over has returned
\* from main() with every basin persisted or skipped
C21_TerminalStatus ==
    /\ script # "" =>
          \A b \in 1..Len(basins_gdf) : ~(out_csv[b] # <<>> /\ b \in Elems(no_data))
    /\ RunStopped => RunTerminated

\* the part of C21 that holds: a run that returns from main() has every basin
\* persisted or skipped, none of them both
C21_ReturnedRuns ==
    /\ script # "" =>
          \A b \in 1..Len(basins_gdf) : ~(out_csv[b] # <<>> /\ b \in Elems(no_data))
    /\ (script # "" /\ pc = "main_done") => \A b \in 1..Len(basins_gdf) : Terminal(b)

\* the polygon of basin b is empty or encloses no area
InvalidGeometry(b) == PolygonArea(basins_gdf[b]) = Num(0)

\* C22: station association fails for a basin whose polygon is empty,
\* self-intersecting or of zero area: no station set is produced for the basin
\* and the basin is skipped, so that nothing is read, aligned or persisted for it
C22_InvalidGeometrySkipped ==
    Associated =>
        \A b \in 1..Len(basins_gdf) :
            InvalidGeometry(b) =>
                /\ basin_station_map[b] = <<>>
                /\ out_csv[b] = <<>>
                /\ basin_id = b => station_dfs = <<>> /\ full_tm = <<>>

\* the stations of basin b that have a file, and the timestamps of their readings
FilesOf(b) == {s \in Elems(basin_station_map[b]) : StationFile(s).exists}
TicksOf(b) == UNION {FileTicks(s) : s \in FilesOf(b)}

\* the values the configured strategy can give for a row of basin b, from the
\* row, the coordinates of the stations of its columns and the polygon of b
OwnReductions(b, row, cols) ==
    LET coords == [c \in 1..Len(cols) |-> <<stations_gdf[cols[c]]>>]
    IN  IF script = "step1_new" /\ RAIN_MEAN_METHOD = "thiessen"
           THEN {reduce_row(script, RAIN_MEAN_METHOD, row, coords, basins_gdf[b], vor) :
                    vor \in Voronoi(row_points(row, coords))}
           ELSE {reduce_row(script, RAIN_MEAN_METHOD, row, coords, basins_gdf[b], <<>>)}

\* table t is what the station set of basin b, the files of these stations and
\* the polygon of b determine
OwnTable(b, t) ==
    /\ Ascending(t.stations)
    /\ Elems(t.stations) = FilesOf(b)
    /\ t.time # <<>>
    /\ t.time[1] = MinTick(TicksOf(b))
    /\ Hourly(t.time)
    /\ t.time[Len(t.time)] <= MaxTick(TicksOf(b))
    /\ MaxTick(TicksOf(b)) < t.time[Len(t.time)] + TicksPerHour
    /\ Len(t.rows) = Len(t.time)
    /\ Len(t.p_anhui) = Len(t.time)
    /\ \A r \in 1..Len(t.time) :
          /\ Len(t.rows[r]) = Len(t.stations)
          /\ \A c \in 1..Len(t.stations) :
                IF t.time[r] \in FileTicks(t.stations[c])
                   THEN IsMeanOf(t.rows[r][c], ReadingsAt(t.stations[c], t.time[r]))
                   ELSE t.rows[r][c] = NaN
          /\ t.p_anhui[r] \in OwnReductions(b, t.rows[r], t.stations)

ThiessenRowReduced ==
    /\ script = "step1_new" /\ RAIN_MEAN_METHOD = "thiessen"
    /\ pc = "p_average"
    /\ Len(P_mean_column) >= 1
    /\ weights # <<>>

\* the columns with a value in the row just reduced, and their stations' points
ReducedColumns == notna_indices(result_df[Len(P_mean_column)])
ReducedPoints ==
    [j \in 1..Len(ReducedColumns) |-> stations_gdf[station_dfs[ReducedColumns[j]].stcd]]

\* a station of the basin in hand that was selected through the buffer only
BufferOnly(stcd) == ~Contains(basins_gdf[basin_id], stations_gdf[stcd])

\* C24: stations are selected with the buffered region but the Thiessen weights
\* are the areas of the Voronoi cells intersected with the unbuffered polygon of
\* the basin: every station with a value in the row, also one selected through
\* the buffer only, is a site of the tessellation and its weight is the area of
\* the overlap of its cell with the raw basin
C24_RawPolygonWeights ==
    ThiessenRowReduced =>
        /\ Len(weights) = Len(ReducedColumns)
        /\ \A j \in 1..Len(ReducedColumns) :
              weights[j] = TrueCellArea(ReducedPoints, j, basins_gdf[basin_id])

\* the part of C24 that holds: every station with a value is a site, and a
\* weight is either the overlap of the cell with the raw basin or nothing
C24_RawPolygonOrNothing ==
    ThiessenRowReduced =>
        /\ Len(weights) = Len(ReducedColumns)
        /\ \A j \in 1..Len(ReducedColumns) :
              weights[j] \in {Num(0), TrueCellArea(ReducedPoints, j, basins_gdf[basin_id])}
        /\ \E j \in 1..Len(ReducedColumns) : BufferOnly(station_dfs[ReducedColumns[j]].stcd)

\* the stations of the columns of the aligned table, each column of another station
TableColumns == {station_dfs[c].stcd : c \in 1..Len(station_dfs)}
ColumnsDistinct ==
    \A c, e \in 1..Len(station_dfs) : station_dfs[c].stcd = station_dfs[e].stcd => c = e

\* C25 as stated: the aligned table of a basin has exactly one column per
\* station associated with the basin: every station of the association has a
\* column and no column belongs to a station outside the association
C25_ColumnPerAssociatedStation ==
    Aligned =>
        /\ ColumnsDistinct
        /\ TableColumns = Elems(basin_station_map[basin_id])

\* C25 amended: the aligned table of a basin has exactly one column per
\* associated station for which the rainfall folder has a file: every such
\* station has a column, a station for which no file is found has none, and no
\* column belongs to a station outside the association
C25_ColumnPerStationWithFile ==
    Aligned =>
        /\ ColumnsDistinct
        /\ TableColumns \subseteq Elems(basin_station_map[basin_id])
        /\ \A s \in Elems(basin_station_map[basin_id]) :
              s \in TableColumns <=> StationFile(s).exists

\* an aligned table of several columns for a basin one of whose stations has
\* no file, while a station outside the association has one
C25_Witness ==
    /\ Aligned
    /\ Len(station_dfs) >= 2
    /\ \E s \in Elems(basin_station_map[basin_id]) : ~StationFile(s).exists
    /\ \E s \in 1..Len(stations_gdf) :
          s \notin Elems(basin_station_map[basin_id]) /\ StationFile(s).exists

\* process_rainfall_for_basin has read all stations of the basin in hand, and
\* some station has a reading
StationsRead == script # "" /\ pc = "p_align" /\ BasinTicks # {}

\* the first station of the basin in hand that has a file
FirstFile == MinTick(BasinFiles)

\* C26: after process_rainfall_for_basin has read all stations, min_tm and
\* max_tm are the minimum and the maximum timestamp over all stations with at
\* least one reading, in whatever order the stations are read and also when a
\* station with zero readings is read first or in between
C26_AxisBoundsOrderIndependent ==
    StationsRead =>
        /\ min_tm = Ts(MinTick(BasinTicks))
        /\ max_tm = Ts(MaxTick(BasinTicks))

\* the part of C26 that holds: the bounds are right unless the first station
\* read has zero readings
C26_BoundsAfterNonEmptyFirst ==
    (StationsRead /\ FileTicks(FirstFile) # {}) =>
        /\ min_tm = Ts(MinTick(BasinTicks))
        /\ max_tm = Ts(MaxTick(BasinTicks))

\* thiessen_row of step1_new has been applied to the row
ThiessenRowCalled == call = "step1_new.thiessen" /\ pc \in {"done", "raised"}

\* the values and the points thiessen_row passes on pair up: as many points as
\* values, the i-th value the reading of the station at the i-th point
ValuesPairWithPoints ==
    LET cols == notna_indices(rainfall_values)
        vals == row_vals(rainfall_values)
        points == row_points(rainfall_values, station_coords)
    IN  /\ Len(vals) = Len(points)
        /\ \A i \in 1..Len(points) :
              /\ vals[i] = rainfall_values[cols[i]]
              /\ station_coords[cols[i]] = <<points[i]>>
        /\ exception # "IndexError"

\* C27: for every row, the values and the points the Thiessen row reduction
\* passes on have the same length and the i-th value is the reading of the
\* station whose coordinate is the i-th point, also when a station with a
\* reading has no entry in station_coords; the count compared with the
\* threshold of three points is the count of the values that are averaged
C27_ValuePointPairing == ThiessenRowCalled => ValuesPairWithPoints

\* the part of C27 that holds: rows in which every station with a reading has
\* an entry in station_coords
C27_PairingWithAllCoords ==
    (ThiessenRowCalled /\ \A i \in ValidSet(rainfall_values) : station_coords[i] # <<>>)
        => ValuesPairWithPoints

\* r is a number between the least and the greatest valid value of the row
Bounded(r, values) ==
    \E i, j \in ValidSet(values) : RLe(values[i], r) /\ RLe(r, values[j])

\* a returned number is bounded by the row it was computed from
BoundedIfNumber(r, values) == IsNum(r) => Bounded(r, values)

\* the three functions called on a row, and the row reductions of the pipelines
FunctionsBounded ==
    /\ (FunctionCalled /\ pc = "done") => BoundedIfNumber(FunctionResult, rainfall_values)
    /\ (call \in {"step1_new.arithmetic", "step1_new.thiessen"} /\ pc = "done") =>
          BoundedIfNumber(P_mean, rainfall_values)
    /\ (call = "calculate_basin_rainfall" /\ pc \in {"cbr_append", "cbr_done"}) =>
          /\ BoundedIfNumber(arithmetic_result, valid_rainfall)
          /\ BoundedIfNumber(thiessen_result, valid_rainfall)
          /\ BoundedIfNumber(idw_result, valid_rainfall)

\* the areal series of a run of main(), row by row of the aligned table
SeriesBounded ==
    script # "" =>
        \A r \in 1..Len(P_mean_column) : BoundedIfNumber(P_mean_column[r], result_df[r])

ColumnsRead ==
    /\ script # ""
    /\ basin_id >= 1
    /\ pc \in {"p_align", "p_average"}

\* column c holds the readings of the file named after its own station
OwnFile(c) ==
    LET stcd == station_dfs[c].stcd
    IN  /\ rainfall_folder[stcd].exists
        /\ station_dfs[c].series = groupby_TM(rainfall_folder[stcd].rows)

\* the columns a listing of the folder gives the basin in hand
ColumnsUnder(listing) ==
    read_stations(basin_station_map[basin_id],
                  files_read(DOMAIN stations_gdf, rainfall_folder, listing),
                  Len(basin_station_map[basin_id])).station_dfs

\* C29: the column of station code S in the aligned table of a basin is read
\* from the rainfall file of station S itself, never from the file of another
\* station whose name merely contains "S-1h_processed.xlsx", and is the same in
\* whatever order the directory lists its files
C29_OwnFileReadings ==
    ColumnsRead =>
        /\ \A c \in 1..Len(station_dfs) : OwnFile(c)
        /\ \A listing \in Listings(rainfall_folder) : ColumnsUnder(listing) = station_dfs

\* the part of C29 that holds: a station whose code no other file name ends
\* with gets its own file, in every listing order
C29_OwnFileWhenNameUnique ==
    ColumnsRead =>
        \A c \in 1..Len(station_dfs) :
           (\A f \in Elems(listdir) :
               name_matches(station_dfs[c].stcd, f) => f = station_dfs[c].stcd)
             => OwnFile(c)

\* C30: inverse_distance_weighting returns a number whenever at least one
\* station has a value, for every list of grid points its caller produces, the
\* empty list of a grid none of whose points lies inside the basin included
C30_IdwValueWhenDataExist ==
    (IdwCalled /\ ValidSet(IdwRow) # {}) => IsNum(idw_result)

\* the part of C30 that holds: with a station that has a value and at least
\* one grid point a number is returned
C30_IdwValueOnNonEmptyGrid ==
    (IdwCalled /\ ValidSet(IdwRow) # {} /\ grid_points # <<>>) => IsNum(idw_result)

====
